---- MODULE Spec2Model ----
(***************************************************************************)
(* hpc_phase_sim.cpp: a phase emulator.  The main thread walks the vector  *)
(* of phases (MEM / CPU / SLEEP), a logger thread samples g_mem.total      *)
(* under g_mem.mtx, a CPU phase owns a vector of worker threads, and the   *)
(* signal handler sets g_stop.                                             *)
(*                                                                         *)
(* Sizes are counted in units of half a chunk (Chunk == 2 units stands for *)
(* the 256 MiB ceiling of alloc_add), times in ticks of half a second.    *)
(* A wait shorter than a tick (the 50 ms polls, the 10 ms duty period)     *)
(* takes no tick and leaves its thread where the loop resumes.             *)
(***************************************************************************)
EXTENDS Integers, Sequences, FiniteSets

\* ---------------------------------------------------------------- bounds
MaxPhases == 2      \* longest plan of the general specification
MaxSize == 3        \* largest abs / |delta| of a generated MEM phase (units)
MaxTotal == 4       \* units the allocator can give in the general specification
MaxThreads == 2     \* most threads of a generated CPU phase
MaxDur == 3         \* longest duration of a phase of the timed specification (ticks)

\* ----------------------------------------------------- program constants
Chunk == 2          \* alloc_add's chunk ceiling, 256 MiB, in units
LogInterval == 2    \* log_interval_s = 1.0 s, in ticks
Slice == 2          \* run_sleep's slice ceiling, 1.0 s, in ticks

GiB == 4 * Chunk
Second == Slice

Min(a, b) == IF a <= b THEN a ELSE b
Max(a, b) == IF a >= b THEN a ELSE b

RECURSIVE SumSeq(_)
SumSeq(s) == IF s = <<>> THEN 0 ELSE Head(s) + SumSeq(Tail(s))

\* ---------------------------------------------------------------- phases
\* struct Phase with its default member initialisers; the parser sets
\* duration for every type and the other fields only for their own type.
Phase(t, d, a, dl, th, u) ==
    [type |-> t, duration_s |-> d, mem_abs |-> a, mem_delta |-> dl,
     cpu_threads |-> th, cpu_util |-> u]

MemPhase(a, dl, d) == Phase("MEM", d, a, dl, 1, 100)
CpuPhase(th, u, d) == Phase("CPU", d, -1, 0, th, u)
SleepPhase(d) == Phase("SLEEP", d, -1, 0, 1, 100)

\* The phases of the general specification.  MEM phases: abs alone
\* (set_absolute), delta alone with and without a hold of one tick (a
\* shrink may ask for more than any pool here holds), and abs followed by a
\* delta of one unit, with and without a hold; abs = -1 is an absent abs.  One CPU phase
\* (cpu_util in percent) and one SLEEP phase of a slice and a half.
MemSet ==
    {MemPhase(a, 0, 0) : a \in 0..MaxSize}
    \cup {MemPhase(-1, dl, d) : dl \in -(MaxSize + 1)..MaxSize, d \in 0..1}
    \cup {MemPhase(a, dl, d) : a \in 0..MaxSize, dl \in {-1, 1}, d \in 0..1}

PhaseSet == MemSet \cup {CpuPhase(1, 40, 1), SleepPhase(Slice + 1)}

\* The phases of the timed specification: CPU phases of 0 (clamped to 1) to
\* MaxThreads threads, SLEEP phases, and a MEM phase that grows, shrinks and
\* then holds, each of 0 to MaxDur ticks.
TimedSet ==
    {CpuPhase(th, 40, d) : th \in 0..MaxThreads, d \in 0..MaxDur}
    \cup {SleepPhase(d) : d \in 0..MaxDur}
    \cup {MemPhase(1, -1, d) : d \in 0..MaxDur}

\* Scenario A: mem abs=2G; cpu threads=4,util=0.4,duration=10s; mem delta=+1G;
\* sleep duration=5s; mem delta=-1.5G.
ScenarioA ==
    << MemPhase(2 * GiB, 0, 0),
       CpuPhase(4, 40, 10 * Second),
       MemPhase(-1, GiB, 0),
       SleepPhase(5 * Second),
       MemPhase(-1, -(6 * Chunk), 0) >>

\* ----------------------------------------------------------------- state
VARIABLES
    phases,     \* vector<Phase>; an entry of type "ANY" is drawn from PhaseSet
                \* when the loop reaches it (the loop never looks ahead)
    duty,       \* one worker's duty period, followed at the clock's resolution
    unknown,    \* argv holds a --phase spec whose type is not mem, cpu or sleep;
                \* phases then holds the specs parsed before it
    memory,     \* the units the allocator can give before new returns nullptr
    g_stop,     \* atomic<bool> g_stop
    bufs,       \* g_mem.bufs: the sizes of the buffers, oldest first
    total,      \* g_mem.total
    mtx,        \* g_mem.mtx: "free", "main" or "logger"
    pc,         \* where the main thread is
    it,         \* the range-for's position in phases
    idx,        \* size_t idx, the number printed in the phase header
    p,          \* the phase the loop body is executing
    curv,       \* size_t cur of the abs branch
    remain,     \* size_t remain of alloc_add / free_bytes
    ret,        \* where alloc_add / free_bytes returns to
    remaining,  \* double remaining of run_sleep
    timer,      \* ticks until the deadline main waits for (sleep_for, stop_at)
    running,    \* atomic<bool> running of run_cpu
    ts,         \* vector<thread> ts of run_cpu: where each worker is
    joined,     \* how many of ts the join loop has joined
    logging,    \* atomic<bool> logging
    lpc,        \* where the logger thread is
    logNext,    \* next - now of the logger, in ticks
    alloc,      \* size_t alloc of the logger
    cerr,       \* the progress lines written to cerr, counted by what they mention
    exit_code,  \* -1 while the process runs, then main's return value
    summary,    \* the byte count of the "Done." line, -1 before it
    call,       \* history: the alloc_add / free_bytes call in progress: its bytes
                \*          (n), and the total (pre) and buffers (bufs) it found
    expected,   \* history: the finished calls' signed deltas, summed and
                \*          clamped at zero after each call
    rawsum,     \* history: the plain sum of the finished calls' signed deltas
    base,       \* history: the plan's total after the phases finished so far
    absseen,    \* history: the pool as the abs branch found it (bufs, total), and
                \*          prev: the target of the set_absolute that was the last
                \*          operation on the pool, -1 if it was none
    readat,     \* history: how many phases had begun when the logger read alloc
    started,    \* history: the positions of the phases begun, in order
    ended,      \* history: how many phase bodies have finished
    due,        \* history: the durations of the burns and sleeps begun, summed
    now,        \* history: the ticks since the process began, followed up to due
    atstop      \* history: the pool (bufs, total) when the phase loop was left,
                \*          total -1 before that

vars == << phases, unknown, duty, memory, g_stop, bufs, total, mtx, pc, it, idx, p, curv, remain, ret,
           remaining, timer, running, ts, joined, logging, lpc, logNext, alloc,
           cerr, exit_code, summary, call, expected, rawsum, base, absseen, readat,
           started, ended, due, now, atstop >>

poolv == << bufs, total >>
outv == << cerr, exit_code, summary >>
cpuv == << running, ts, joined >>
logv == << logging, lpc, logNext, alloc, readat >>
timev == << due, now, atstop >>
histv == << call, expected, rawsum, base, absseen, started, ended, timev >>

\* What a line written to cerr mentions: "== Phase n ==" (HDR); "MEM: abs=",
\* "MEM: +=", "MEM: -=" (MEM); "CPU: threads=" (CPU); "SLEEP: duration="
\* (SLEEP); the usage text (HELP); "Unknown phase type in:" (ERR).
LineKinds == {"HDR", "MEM", "CPU", "SLEEP", "HELP", "ERR"}

NoCall == [kind |-> "none", n |-> 0, pre |-> 0, bufs |-> <<>>]
NoAbs == [bufs |-> <<>>, total |-> 0, prev |-> -1]
NoPhase == SleepPhase(0)
NotStopped == [bufs |-> <<>>, total |-> -1]
NoDuty == [util |-> 100, at |-> "none", elapsed |-> 0, flops |-> FALSE, slept |-> 0, ran |-> FALSE]
AnyPhase == Phase("ANY", 0, -1, 0, 1, 100)
TimedPhase == Phase("TIMED", 0, -1, 0, 1, 100)

InitCommon ==
    /\ duty = NoDuty
    /\ g_stop = FALSE
    /\ bufs = <<>>
    /\ total = 0
    /\ mtx = "free"
    /\ pc = "start"
    /\ it = 1
    /\ idx = 0
    /\ p = NoPhase
    /\ curv = 0
    /\ remain = 0
    /\ ret = "none"
    /\ remaining = 0
    /\ timer = 0
    /\ running = FALSE
    /\ ts = <<>>
    /\ joined = 0
    /\ logging = FALSE
    /\ lpc = "none"
    /\ logNext = 0
    /\ alloc = 0
    /\ cerr = [k \in LineKinds |-> 0]
    /\ exit_code = -1
    /\ summary = -1
    /\ call = NoCall
    /\ expected = 0
    /\ rawsum = 0
    /\ base = 0
    /\ absseen = NoAbs
    /\ readat = 0
    /\ started = <<>>
    /\ ended = 0
    /\ due = 0
    /\ now = 0
    /\ atstop = NotStopped

\* Any plan of at most MaxPhases phases of PhaseSet.
Init ==
    /\ InitCommon
    /\ \E n \in 0..MaxPhases : phases = [i \in 1..n |-> AnyPhase]
    /\ unknown \in BOOLEAN
    /\ memory = MaxTotal

\* The process is running: main has not returned and std::terminate has not
\* been called.
Alive == exit_code = -1 /\ pc \notin {"exited", "terminate"}

Emit(k) == cerr' = [cerr EXCEPT ![k] = @ + 1]

\* ------------------------------------------------------------ memory pool
\* A slip: the request is allocated in one piece.
ThisChunkAll(r) == r

\* alloc_add: this_chunk = min(remain, chunk)
ThisChunk(r) == Min(r, Chunk)

\* alloc_add: g_mem.total += b.size
AllocTotal(t, sz) == t + sz

\* alloc_add: g_mem.bufs.push_back(b)
AllocBufs(b, sz) == Append(b, sz)

\* A slip: < for <=, so a buffer of exactly remain bytes is truncated to nothing.
WholeBackStrict(b, r) == b[Len(b)] < r

\* free_bytes: back.size <= remain
WholeBack(b, r) == b[Len(b)] <= r

\* A slip: the buffer is popped and the total is not reduced.
PopTotalKept(t, b) == t

\* free_bytes, whole buffer: total -= back.size; pop_back()
PopTotal(t, b) == t - b[Len(b)]

\* A slip: the oldest buffer is released, not the newest.
PopBufsFront(b) == SubSeq(b, 2, Len(b))

\* free_bytes, whole buffer: g_mem.bufs.pop_back()
PopBufs(b) == SubSeq(b, 1, Len(b) - 1)

\* A slip: the truncation swaps the storage but leaves back.size as it was.
TruncBufsSameSize(b, r) == b

\* free_bytes, inside a buffer: keep = back.size - remain; back.size = keep
TruncBufs(b, r) == [b EXCEPT ![Len(b)] = @ - r]

\* A slip: the truncation takes the whole buffer, not remain, off the total.
TruncTotalWhole(t, b, r) == t - b[Len(b)]

\* free_bytes, inside a buffer: total -= remain
TruncTotal(t, b, r) == t - r

\* The total a MEM phase leaves when it starts from t: abs first, then delta.
MemEffect(t, ph) ==
    IF ph.type # "MEM" THEN t
    ELSE Max(0, (IF ph.mem_abs >= 0 THEN ph.mem_abs ELSE t) + ph.mem_delta)

\* ------------------------------------------------------------ main thread
\* A slip: the check for an empty plan is left out.
PlanEmptyNever(ps) == FALSE

\* phases.empty()
PlanEmpty(ps) == Len(ps) = 0

\* main: the argument loop ends in { cerr << "Unknown phase type in: "; return 1; }
\* at a spec of unknown type; after it, if (phases.empty()) { print_help();
\* return 1; }  then t0 and the logger thread are created.
Start ==
    /\ pc = "start"
    /\ IF unknown
       THEN /\ Emit("ERR")
            /\ exit_code' = 1
            /\ pc' = "exited"
            /\ UNCHANGED logv
       ELSE IF PlanEmpty(phases)
       THEN /\ Emit("HELP")
            /\ exit_code' = 1
            /\ pc' = "exited"
            /\ UNCHANGED logv
       ELSE /\ logging' = TRUE
            /\ lpc' = "check"
            /\ logNext' = LogInterval
            /\ pc' = "loop"
            /\ UNCHANGED << alloc, readat, cerr, exit_code >>
    /\ UNCHANGED << phases, unknown, duty, memory, g_stop, poolv, mtx, it, idx, p, curv, remain, ret,
                    remaining, timer, cpuv, summary, histv >>

\* The phases entry e of the plan stands for.
Drawn(e) ==
    IF e.type = "ANY" THEN PhaseSet
    ELSE IF e.type = "TIMED" THEN TimedSet ELSE {e}

\* A slip: a CPU phase falls through to the sleep branch.
BodyOfNoCpu(ph) == IF ph.type = "MEM" THEN "mem_abs" ELSE "sleep_phase"

BodyOf(ph) ==
    IF ph.type = "MEM" THEN "mem_abs"
    ELSE IF ph.type = "CPU" THEN "cpu" ELSE "sleep_phase"

\* A slip: the loop has no test of g_stop.
PhaseBeginNoBreak ==
    /\ pc = "loop"
    /\ IF it > Len(phases)
       THEN /\ pc' = "shutdown"
            /\ atstop' = [bufs |-> bufs, total |-> total]
            /\ UNCHANGED << p, idx, cerr, started >>
       ELSE \E ph \in Drawn(phases[it]) :
            /\ p' = ph
            /\ idx' = idx + 1
            /\ Emit("HDR")
            /\ started' = Append(started, it)
            /\ pc' = BodyOf(ph)
            /\ UNCHANGED atstop
    /\ UNCHANGED << phases, unknown, duty, memory, g_stop, poolv, mtx, it, curv, remain, ret, remaining,
                    timer, cpuv, logv, exit_code, summary, call, expected, rawsum, base,
                    absseen, ended, due, now >>

\* for (auto& p : phases) { if (g_stop.load()) break; cerr << "== Phase " ...
PhaseBegin ==
    /\ pc = "loop"
    /\ IF it > Len(phases) \/ g_stop
       THEN /\ pc' = "shutdown"
            /\ atstop' = [bufs |-> bufs, total |-> total]
            /\ UNCHANGED << p, idx, cerr, started >>
       ELSE \E ph \in Drawn(phases[it]) :
            /\ p' = ph
            /\ idx' = idx + 1
            /\ Emit("HDR")
            /\ started' = Append(started, it)
            /\ pc' = BodyOf(ph)
            /\ UNCHANGED atstop
    /\ UNCHANGED << phases, unknown, duty, memory, g_stop, poolv, mtx, it, curv, remain, ret, remaining,
                    timer, cpuv, logv, exit_code, summary, call, expected, rawsum, base,
                    absseen, ended, due, now >>

\* A slip: the loop steps over every other phase.
NextItSkip(i) == i + 2

\* The range-for's ++ on its iterator.
NextIt(i) == i + 1

\* The end of the loop body: the range-for advances.  (A local that has gone
\* out of scope is put back to its initial value, here and below.)
PhaseEnd ==
    /\ pc = "phase_end"
    /\ it' = NextIt(it)
    /\ ended' = ended + 1
    /\ base' = MemEffect(base, p)
    /\ p' = NoPhase
    /\ ts' = <<>>
    /\ joined' = 0
    /\ pc' = "loop"
    /\ UNCHANGED << phases, unknown, duty, memory, g_stop, poolv, mtx, idx, curv, remain, ret,
                    remaining, timer, running, logv, outv, call, expected, rawsum, absseen,
                    started, timev >>

\* A slip: cur is left at its initial value instead of the pool's total.
CurReadNothing(t) == 0

\* cur = g_mem.total
CurRead(t) == t

\* if (p.mem_abs >= 0) { target = ...; { lock_guard lk(g_mem.mtx); cur = g_mem.total;
MemAbs ==
    /\ pc = "mem_abs"
    /\ IF p.mem_abs >= 0
       THEN /\ mtx = "free"
            /\ mtx' = "main"
            /\ curv' = CurRead(total)
            /\ absseen' = [absseen EXCEPT !.bufs = bufs, !.total = total]
            /\ pc' = "abs_unlock"
       ELSE /\ pc' = "mem_delta"
            /\ UNCHANGED << mtx, curv, absseen >>
    /\ UNCHANGED << phases, unknown, duty, memory, g_stop, poolv, it, idx, p, remain, ret, remaining,
                    timer, cpuv, logv, outv, call, expected, rawsum, base, started, ended, timev >>

\* A slip: the abs branch grows but has lost its shrink arm.
AbsCallNoShrink(target, c) ==
    IF target > c THEN [pc |-> "alloc_add", bytes |-> target - c]
    ELSE [pc |-> "abs_print", bytes |-> 0]

\* The abs branch's decision: target > cur grows, target < cur shrinks.
AbsCall(target, c) ==
    IF target > c THEN [pc |-> "alloc_add", bytes |-> target - c]
    ELSE IF target < c THEN [pc |-> "free_bytes", bytes |-> c - target]
    ELSE [pc |-> "abs_print", bytes |-> 0]

\* ... }  if (target > cur) alloc_add(target - cur);
\*        else if (target < cur) free_bytes(cur - target);
AbsUnlock ==
    /\ pc = "abs_unlock"
    /\ mtx' = "free"
    /\ pc' = AbsCall(p.mem_abs, curv).pc
    /\ remain' = AbsCall(p.mem_abs, curv).bytes
    /\ ret' = "abs_print"
    /\ curv' = 0
    /\ UNCHANGED << phases, unknown, duty, memory, g_stop, poolv, it, idx, p, remaining, timer,
                    cpuv, logv, outv, histv >>

\* A slip: the delta is an else branch of the abs test and is passed over.
AbsPrintSkipsDelta ==
    /\ pc = "abs_print"
    /\ Emit("MEM")
    /\ absseen' = [bufs |-> <<>>, total |-> 0, prev |-> p.mem_abs]
    /\ pc' = "mem_hold"
    /\ ret' = "none"
    /\ UNCHANGED << phases, unknown, duty, memory, g_stop, poolv, mtx, it, idx, p, curv, remain,
                    remaining, timer, cpuv, logv, exit_code, summary, call,
                    expected, rawsum, base, started, ended, timev >>

\* cerr << "MEM: abs=" << target
AbsPrint ==
    /\ pc = "abs_print"
    /\ Emit("MEM")
    /\ absseen' = [bufs |-> <<>>, total |-> 0, prev |-> p.mem_abs]
    /\ pc' = "mem_delta"
    /\ ret' = "none"
    /\ UNCHANGED << phases, unknown, duty, memory, g_stop, poolv, mtx, it, idx, p, curv, remain,
                    remaining, timer, cpuv, logv, exit_code, summary, call,
                    expected, rawsum, base, started, ended, timev >>

\* alloc_add((size_t)p.mem_delta)
GrowBytes(dl) == dl

\* A slip: the negative delta is cast without the minus; as a size_t it is
\* huge (here: more than any pool holds).
ShrinkBytesWrapped(dl) == 1000000 + dl

\* free_bytes((size_t)(-p.mem_delta))
ShrinkBytes(dl) == -dl

\* if (p.mem_delta != 0) { if (p.mem_delta > 0) alloc_add(...) else free_bytes(...) }
MemDelta ==
    /\ pc = "mem_delta"
    /\ IF p.mem_delta > 0
       THEN /\ pc' = "alloc_add"
            /\ remain' = GrowBytes(p.mem_delta)
            /\ ret' = "add_print"
            /\ absseen' = [absseen EXCEPT !.prev = -1]
       ELSE IF p.mem_delta < 0
       THEN /\ pc' = "free_bytes"
            /\ remain' = ShrinkBytes(p.mem_delta)
            /\ ret' = "sub_print"
            /\ absseen' = [absseen EXCEPT !.prev = -1]
       ELSE /\ pc' = "mem_hold"
            /\ UNCHANGED << remain, ret, absseen >>
    /\ UNCHANGED << phases, unknown, duty, memory, g_stop, poolv, mtx, it, idx, p, curv, remaining,
                    timer, cpuv, logv, outv, call, expected, rawsum, base, started, ended, timev >>

\* cerr << "MEM: +=" ... / cerr << "MEM: -=" ...
DeltaPrint ==
    /\ pc \in {"add_print", "sub_print"}
    /\ Emit("MEM")
    /\ pc' = "mem_hold"
    /\ ret' = "none"
    /\ UNCHANGED << phases, unknown, duty, memory, g_stop, poolv, mtx, it, idx, p, curv, remain,
                    remaining, timer, cpuv, logv, exit_code, summary, histv >>

\* if (p.duration_s > 0) run_sleep(p.duration_s);
MemHold ==
    /\ pc = "mem_hold"
    /\ pc' = IF p.duration_s > 0 THEN "run_sleep" ELSE "phase_end"
    /\ UNCHANGED << phases, unknown, duty, memory, g_stop, poolv, mtx, it, idx, p, curv, remain, ret,
                    remaining, timer, cpuv, logv, outv, histv >>

\* alloc_add: lock_guard lk(g_mem.mtx); remain = bytes;
AllocLock ==
    /\ pc = "alloc_add"
    /\ mtx = "free"
    /\ mtx' = "main"
    /\ call' = [kind |-> "alloc", n |-> remain, pre |-> total, bufs |-> bufs]
    /\ pc' = "alloc_loop"
    /\ UNCHANGED << phases, unknown, duty, memory, g_stop, poolv, it, idx, p, curv, remain, ret,
                    remaining, timer, cpuv, logv, outv, expected, rawsum, base, absseen,
                    started, ended, timev >>

\* new (nothrow) uint8_t[n]: it may give nullptr at any time, and does when
\* the memory is used up.
NewOutcomes(t, n) == IF t + n <= memory THEN {TRUE, FALSE} ELSE {FALSE}

\* A slip: alloc_add's loop gives up when the signal has arrived.
AllocLoopPolls ==
    /\ pc = "alloc_loop"
    /\ IF remain > 0 /\ ~g_stop
       THEN \E ok \in NewOutcomes(total, ThisChunk(remain)) :
            IF ok
            THEN /\ total' = AllocTotal(total, ThisChunk(remain))
                 /\ bufs' = AllocBufs(bufs, ThisChunk(remain))
                 /\ remain' = remain - ThisChunk(remain)
                 /\ UNCHANGED << mtx, pc, call, expected, rawsum >>
            ELSE /\ pc' = "terminate"
                 /\ UNCHANGED << poolv, mtx, remain, call, expected, rawsum >>
       ELSE /\ mtx' = "free"
            /\ pc' = ret
            /\ expected' = expected + call.n
            /\ rawsum' = rawsum + call.n
            /\ call' = NoCall
            /\ remain' = 0
            /\ UNCHANGED poolv
    /\ UNCHANGED << phases, unknown, duty, memory, g_stop, it, idx, p, curv, ret, remaining, timer,
                    cpuv, logv, outv, base, absseen, started, ended, timev >>

\* alloc_add: one turn of while (remain > 0), or the return.  On nullptr
\* bad_alloc leaves main uncaught and the process terminates.
AllocLoop ==
    /\ pc = "alloc_loop"
    /\ IF remain > 0
       THEN \E ok \in NewOutcomes(total, ThisChunk(remain)) :
            IF ok
            THEN /\ total' = AllocTotal(total, ThisChunk(remain))
                 /\ bufs' = AllocBufs(bufs, ThisChunk(remain))
                 /\ remain' = remain - ThisChunk(remain)
                 /\ UNCHANGED << mtx, pc, call, expected, rawsum >>
            ELSE /\ pc' = "terminate"
                 /\ UNCHANGED << poolv, mtx, remain, call, expected, rawsum >>
       ELSE /\ mtx' = "free"
            /\ pc' = ret
            /\ expected' = expected + call.n
            /\ rawsum' = rawsum + call.n
            /\ call' = NoCall
            /\ remain' = 0
            /\ UNCHANGED poolv
    /\ UNCHANGED << phases, unknown, duty, memory, g_stop, it, idx, p, curv, ret, remaining, timer,
                    cpuv, logv, outv, base, absseen, started, ended, timev >>

\* free_bytes: lock_guard lk(g_mem.mtx); remain = bytes;
FreeLock ==
    /\ pc = "free_bytes"
    /\ mtx = "free"
    /\ mtx' = "main"
    /\ call' = [kind |-> "free", n |-> remain, pre |-> total, bufs |-> bufs]
    /\ pc' = "free_loop"
    /\ UNCHANGED << phases, unknown, duty, memory, g_stop, poolv, it, idx, p, curv, remain, ret,
                    remaining, timer, cpuv, logv, outv, expected, rawsum, base, absseen,
                    started, ended, timev >>

\* free_bytes: one turn of while (remain > 0 && !bufs.empty()), or the return.
FreeLoop ==
    /\ pc = "free_loop"
    /\ IF remain > 0 /\ bufs # <<>>
       THEN IF WholeBack(bufs, remain)
            THEN /\ remain' = remain - bufs[Len(bufs)]
                 /\ total' = PopTotal(total, bufs)
                 /\ bufs' = PopBufs(bufs)
                 /\ UNCHANGED << mtx, pc, call, expected, rawsum >>
            ELSE \E ok \in NewOutcomes(total, bufs[Len(bufs)] - remain) :
                 IF ok
                 THEN /\ bufs' = TruncBufs(bufs, remain)
                      /\ total' = TruncTotal(total, bufs, remain)
                      /\ remain' = 0
                      /\ UNCHANGED << mtx, pc, call, expected, rawsum >>
                 ELSE /\ pc' = "terminate"
                      /\ UNCHANGED << poolv, mtx, remain, call, expected, rawsum >>
       ELSE /\ mtx' = "free"
            /\ pc' = ret
            /\ expected' = Max(0, expected - call.n)
            /\ rawsum' = rawsum - call.n
            /\ call' = NoCall
            /\ remain' = 0
            /\ UNCHANGED poolv
    /\ UNCHANGED << phases, unknown, duty, memory, g_stop, it, idx, p, curv, ret, remaining, timer,
                    cpuv, logv, outv, base, absseen, started, ended, timev >>

\* ------------------------------------------------------------- run_sleep
\* cerr << "SLEEP: duration=" ...; run_sleep(p.duration_s);
SleepPrint ==
    /\ pc = "sleep_phase"
    /\ Emit("SLEEP")
    /\ pc' = "run_sleep"
    /\ UNCHANGED << phases, unknown, duty, memory, g_stop, poolv, mtx, it, idx, p, curv, remain, ret,
                    remaining, timer, cpuv, logv, exit_code, summary, histv >>

\* run_sleep: if (duration_s <= 0.0) return; remaining = duration_s;
SleepEntry ==
    /\ pc = "run_sleep"
    /\ IF p.duration_s <= 0
       THEN pc' = "phase_end" /\ UNCHANGED << remaining, due >>
       ELSE pc' = "sleep_loop" /\ remaining' = p.duration_s /\ due' = due + p.duration_s
    /\ UNCHANGED << phases, unknown, duty, memory, g_stop, poolv, mtx, it, idx, p, curv, remain, ret,
                    timer, cpuv, logv, outv, call, expected, rawsum, base, absseen,
                    started, ended, now, atstop >>

\* A slip: the whole of remaining is slept in one piece.
SleepChunkWhole(r) == r

\* run_sleep: chunk = min(remaining, 1.0)
SleepChunk(r) == Min(r, Slice)

\* run_sleep: while (remaining > 0.0 && !g_stop.load()) { chunk = ...; sleep_for(chunk)
SleepLoop ==
    /\ pc = "sleep_loop"
    /\ IF remaining > 0 /\ ~g_stop
       THEN pc' = "sleeping" /\ timer' = SleepChunk(remaining) /\ UNCHANGED remaining
       ELSE pc' = "phase_end" /\ remaining' = 0 /\ UNCHANGED timer
    /\ UNCHANGED << phases, unknown, duty, memory, g_stop, poolv, mtx, it, idx, p, curv, remain, ret,
                    cpuv, logv, outv, histv >>

\* A slip: the slice is slept in a smaller unit, sleep_for returns at once.
SleepWakeEarly ==
    /\ pc = "sleeping"
    /\ timer' = 0
    /\ remaining' = remaining - SleepChunk(remaining)
    /\ pc' = "sleep_loop"
    /\ UNCHANGED << phases, unknown, duty, memory, g_stop, poolv, mtx, it, idx, p, curv, remain, ret,
                    cpuv, logv, outv, histv >>

\* run_sleep: sleep_for returns once the slice has passed; remaining -= chunk;
SleepWake ==
    /\ pc = "sleeping"
    /\ timer = 0
    /\ remaining' = remaining - SleepChunk(remaining)
    /\ pc' = "sleep_loop"
    /\ UNCHANGED << phases, unknown, duty, memory, g_stop, poolv, mtx, it, idx, p, curv, remain, ret,
                    timer, cpuv, logv, outv, histv >>

\* --------------------------------------------------------------- run_cpu
\* run_cpu: if (threads <= 0) threads = 1;
ClampThreads(n) == IF n <= 0 THEN 1 ELSE n

\* A slip: run_cpu passes util to the workers as it came.
ClampUtilNone(u) == u

\* run_cpu: if (util < 0.0) util = 0.0; if (util > 1.0) util = 1.0;
ClampUtil(u) == IF u < 0 THEN 0 ELSE IF u > 100 THEN 100 ELSE u

\* cerr << "CPU: threads=" ...; run_cpu(...): running{true}; ts.reserve(threads);
CpuPrint ==
    /\ pc = "cpu"
    /\ Emit("CPU")
    /\ running' = TRUE
    /\ ts' = <<>>
    /\ joined' = 0
    /\ pc' = "cpu_spawn"
    /\ UNCHANGED << phases, unknown, duty, memory, g_stop, poolv, mtx, it, idx, p, curv, remain, ret,
                    remaining, timer, logv, exit_code, summary, histv >>

\* run_cpu: for (i < threads) ts.emplace_back(worker); stop_at = now + duration_s;
CpuSpawn ==
    /\ pc = "cpu_spawn"
    /\ IF Len(ts) < ClampThreads(p.cpu_threads)
       THEN /\ ts' = Append(ts, "check")
            /\ UNCHANGED << pc, timer, due >>
       ELSE /\ timer' = p.duration_s
            /\ due' = due + p.duration_s
            /\ pc' = "cpu_wait"
            /\ UNCHANGED ts
    /\ UNCHANGED << phases, unknown, duty, memory, g_stop, poolv, mtx, it, idx, p, curv, remain, ret,
                    remaining, running, joined, logv, outv, call, expected, rawsum, base,
                    absseen, started, ended, now, atstop >>

\* run_cpu: while (clk::now() < stop_at && !g_stop.load()) sleep_for(50ms);
\*          running.store(false);
CpuWait ==
    /\ pc = "cpu_wait"
    /\ IF timer > 0 /\ ~g_stop
       THEN UNCHANGED << pc, running, timer >>
       ELSE /\ running' = FALSE
            /\ timer' = 0
            /\ pc' = "cpu_join"
    /\ UNCHANGED << phases, unknown, duty, memory, g_stop, poolv, mtx, it, idx, p, curv, remain, ret,
                    remaining, ts, joined, logv, outv, histv >>

\* A slip: the threads are detached, not joined: join returns at once.
JoinableAlways(t) == TRUE

\* t.join() returns once thread t has finished.
Joinable(t) == t = "done"

\* run_cpu: for (auto& t : ts) t.join();  then run_cpu returns (ts is destroyed
\* as the loop body ends).
CpuJoin ==
    /\ pc = "cpu_join"
    /\ IF joined < Len(ts)
       THEN /\ Joinable(ts[joined + 1])
            /\ joined' = joined + 1
            /\ UNCHANGED pc
       ELSE /\ pc' = "phase_end"
            /\ UNCHANGED joined
    /\ UNCHANGED << phases, unknown, duty, memory, g_stop, poolv, mtx, it, idx, p, curv, remain, ret,
                    remaining, timer, running, ts, logv, outv, histv >>

\* ------------------------------------------------- the worker's duty period
\* One worker's loop followed at the resolution of its clock.  The unit of
\* time here is the millisecond; util is in percent.
\* worker: const auto period = chrono::milliseconds(10);
Period == 10

\* worker: busy_ns = chrono::nanoseconds((long long)(util * 1e7)), in ms.
BusyNs(u) == (u * Period) \div 100

\* worker: auto sleep_left = period - elapsed;
SleepLeft(e) == Period - e

\* The utilisations a plan may ask for: below 0, 0 to 100% by tenths, above 100%.
UtilSet == {-50, 150} \cup {10 * k : k \in 0..10}

\* The util the worker's lambda captured: run_cpu's clamped copy.
Captured(u) == ClampUtil(u)

\* worker: while (running.load(relaxed) && !g_stop.load()) { auto start = clk::now();
DutyCheck ==
    /\ duty.at = "check"
    /\ IF running /\ ~g_stop
       THEN duty' = [duty EXCEPT !.at = "busy", !.elapsed = 0, !.flops = FALSE, !.slept = 0]
       ELSE duty' = [duty EXCEPT !.at = "done"]
    /\ UNCHANGED << phases, unknown, memory, g_stop, poolv, mtx, pc, it, idx, p, curv, remain, ret,
                    remaining, timer, cpuv, logv, outv, histv >>

\* worker: while ((clk::now() - start) < busy_ns) { x = x * 1.0000001 + 0.0000001; }
\* The iterations made while the clock shows one reading are one step; the
\* loop ends at the first reading that is not below busy_ns, and then
\* elapsed = clk::now() - start; sleep_left = period - elapsed.
DutyBusy ==
    /\ duty.at = "busy"
    /\ IF duty.elapsed < BusyNs(Captured(duty.util))
       THEN duty' = [duty EXCEPT !.elapsed = @ + 1, !.flops = TRUE]
       ELSE duty' = [duty EXCEPT !.at = IF SleepLeft(duty.elapsed) > 0 THEN "sleep" ELSE "check",
                                 !.ran = TRUE]
    /\ UNCHANGED << phases, unknown, memory, g_stop, poolv, mtx, pc, it, idx, p, curv, remain, ret,
                    remaining, timer, cpuv, logv, outv, histv >>

\* worker: if (sleep_left.count() > 0) this_thread::sleep_for(sleep_left);
DutySleep ==
    /\ duty.at = "sleep"
    /\ duty' = [duty EXCEPT !.at = "check", !.slept = SleepLeft(duty.elapsed)]
    /\ UNCHANGED << phases, unknown, memory, g_stop, poolv, mtx, pc, it, idx, p, curv, remain, ret,
                    remaining, timer, cpuv, logv, outv, histv >>

Duty == DutyCheck \/ DutyBusy \/ DutySleep

\* A slip: the worker's loop tests running alone.
WorkerCheckNoStop(w) ==
    /\ Alive
    /\ w \in 1..Len(ts)
    /\ ts[w] = "check"
    /\ ts' = [ts EXCEPT ![w] = IF running THEN "period" ELSE "done"]
    /\ UNCHANGED << phases, unknown, duty, memory, g_stop, poolv, mtx, pc, it, idx, p, curv, remain, ret,
                    remaining, timer, running, joined, logv, outv, histv >>

\* worker: while (running.load(relaxed) && !g_stop.load()) {
WorkerCheck(w) ==
    /\ Alive
    /\ w \in 1..Len(ts)
    /\ ts[w] = "check"
    /\ ts' = [ts EXCEPT ![w] = IF running /\ ~g_stop THEN "period" ELSE "done"]
    /\ UNCHANGED << phases, unknown, duty, memory, g_stop, poolv, mtx, pc, it, idx, p, curv, remain, ret,
                    remaining, timer, running, joined, logv, outv, histv >>

\* worker: one duty period, the busy loop and then sleep_for(sleep_left).
WorkerPeriod(w) ==
    /\ Alive
    /\ w \in 1..Len(ts)
    /\ ts[w] = "period"
    /\ ts' = [ts EXCEPT ![w] = "check"]
    /\ UNCHANGED << phases, unknown, duty, memory, g_stop, poolv, mtx, pc, it, idx, p, curv, remain, ret,
                    remaining, timer, running, joined, logv, outv, histv >>

\* -------------------------------------------------------------- shutdown
\* A slip: the pool is drained before the logger is stopped.
ShutdownDrains ==
    /\ pc = "shutdown"
    /\ logging' = FALSE
    /\ bufs' = <<>>
    /\ total' = 0
    /\ pc' = "join_logger"
    /\ UNCHANGED << phases, unknown, duty, memory, g_stop, mtx, it, idx, p, curv, remain, ret,
                    remaining, timer, cpuv, lpc, logNext, alloc, readat, outv, histv >>

\* logging.store(false);
Shutdown ==
    /\ pc = "shutdown"
    /\ logging' = FALSE
    /\ pc' = "join_logger"
    /\ UNCHANGED << phases, unknown, duty, memory, g_stop, poolv, mtx, it, idx, p, curv, remain, ret,
                    remaining, timer, cpuv, lpc, logNext, alloc, readat, outv, histv >>

\* A slip: the logger is detached, and main goes on without waiting for it.
JoinLoggerDetached ==
    /\ pc = "join_logger"
    /\ pc' = "summary"
    /\ UNCHANGED << phases, unknown, duty, memory, g_stop, poolv, mtx, it, idx, p, curv, remain, ret,
                    remaining, timer, cpuv, logv, outv, histv >>

\* logger.join();
JoinLogger ==
    /\ pc = "join_logger"
    /\ lpc = "done"
    /\ pc' = "summary"
    /\ UNCHANGED << phases, unknown, duty, memory, g_stop, poolv, mtx, it, idx, p, curv, remain, ret,
                    remaining, timer, cpuv, logv, outv, histv >>

\* { lock_guard lk(g_mem.mtx); cerr << "Done. Total allocated bytes=" << total }
\* return 0;
Summary ==
    /\ pc = "summary"
    /\ mtx = "free"
    /\ summary' = total
    /\ exit_code' = 0
    /\ pc' = "exited"
    /\ UNCHANGED << phases, unknown, duty, memory, g_stop, poolv, mtx, it, idx, p, curv, remain, ret,
                    remaining, timer, cpuv, logv, cerr, histv >>

\* ---------------------------------------------------------------- logger
\* A slip: the logger makes one pass of its loop and returns.
LogCheckOnce ==
    /\ Alive
    /\ lpc = "check"
    /\ lpc' = "done"
    /\ UNCHANGED << phases, unknown, duty, memory, g_stop, poolv, mtx, pc, it, idx, p, curv, remain, ret,
                    remaining, timer, cpuv, logging, logNext, alloc, readat, outv, histv >>

\* logger: while (logging.load() && !g_stop.load()) {
LogCheck ==
    /\ Alive
    /\ lpc = "check"
    /\ lpc' = IF logging /\ ~g_stop THEN "clock" ELSE "done"
    /\ UNCHANGED << phases, unknown, duty, memory, g_stop, poolv, mtx, pc, it, idx, p, curv, remain, ret,
                    remaining, timer, cpuv, logging, logNext, alloc, readat, outv, histv >>

\* logger: now = clk::now(); if (now >= next) ... else sleep_for(50ms)
LogClock ==
    /\ Alive
    /\ lpc = "clock"
    /\ lpc' = IF logNext <= 0 THEN "lock" ELSE "check"
    /\ UNCHANGED << phases, unknown, duty, memory, g_stop, poolv, mtx, pc, it, idx, p, curv, remain, ret,
                    remaining, timer, cpuv, logging, logNext, alloc, readat, outv, histv >>

\* A slip: the logger reads g_mem.total without taking g_mem.mtx.
LogLockNoMutex ==
    /\ Alive
    /\ lpc = "lock"
    /\ alloc' = total
    /\ readat' = Len(started)
    /\ lpc' = "unlock"
    /\ UNCHANGED << phases, unknown, duty, memory, g_stop, poolv, mtx, pc, it, idx, p, curv, remain,
                    ret, remaining, timer, cpuv, logging, logNext, outv, histv >>

\* logger: { lock_guard lk(g_mem.mtx); alloc = g_mem.total;
LogLock ==
    /\ Alive
    /\ lpc = "lock"
    /\ mtx = "free"
    /\ mtx' = "logger"
    /\ alloc' = total
    /\ readat' = Len(started)
    /\ lpc' = "unlock"
    /\ UNCHANGED << phases, unknown, duty, memory, g_stop, poolv, pc, it, idx, p, curv, remain, ret,
                    remaining, timer, cpuv, logging, logNext, outv, histv >>

\* A slip: the logger's lock_guard outlives the block of the read.
LogUnlockKeeps ==
    /\ Alive
    /\ lpc = "unlock"
    /\ logNext' = logNext + LogInterval
    /\ alloc' = 0
    /\ readat' = 0
    /\ lpc' = "check"
    /\ UNCHANGED << phases, unknown, duty, memory, g_stop, poolv, mtx, pc, it, idx, p, curv, remain, ret,
                    remaining, timer, cpuv, logging, outv, histv >>

\* logger: ... }  rss = read_vm_rss_kib(); cerr << "[metrics] ..."; next += interval;
LogUnlock ==
    /\ Alive
    /\ lpc = "unlock"
    /\ mtx' = "free"
    /\ logNext' = logNext + LogInterval
    /\ alloc' = 0
    /\ readat' = 0
    /\ lpc' = "check"
    /\ UNCHANGED << phases, unknown, duty, memory, g_stop, poolv, pc, it, idx, p, curv, remain, ret,
                    remaining, timer, cpuv, logging, outv, histv >>

\* ------------------------------------------------------ clock and signal
\* The steady clock advances by one tick.  The logger is followed until it is
\* one interval behind its timeline.
Tick ==
    /\ Alive
    /\ timer' = Max(timer - 1, 0)
    /\ logNext' = IF lpc = "none" THEN logNext ELSE Max(logNext - 1, -LogInterval)
    /\ now' = Min(now + 1, due)
    /\ UNCHANGED << phases, unknown, duty, memory, g_stop, poolv, mtx, pc, it, idx, p, curv, remain, ret,
                    remaining, cpuv, logging, lpc, alloc, readat, outv, call, expected,
                    rawsum, base, absseen, started, ended, due, atstop >>

\* on_sigint: g_stop.store(true)
SigInt ==
    /\ Alive
    /\ ~g_stop
    /\ g_stop' = TRUE
    /\ UNCHANGED << phases, unknown, duty, memory, poolv, mtx, pc, it, idx, p, curv, remain, ret,
                    remaining, timer, cpuv, logv, outv, histv >>

Main ==
    \/ Start \/ PhaseBegin \/ PhaseEnd
    \/ MemAbs \/ AbsUnlock \/ AbsPrint \/ MemDelta \/ DeltaPrint \/ MemHold
    \/ AllocLock \/ AllocLoop \/ FreeLock \/ FreeLoop
    \/ SleepPrint \/ SleepEntry \/ SleepLoop \/ SleepWake
    \/ CpuPrint \/ CpuSpawn \/ CpuWait \/ CpuJoin
    \/ Shutdown \/ JoinLogger \/ Summary

Worker == \E w \in 1..Len(ts) : WorkerCheck(w) \/ WorkerPeriod(w)

Logger == LogCheck \/ LogClock \/ LogLock \/ LogUnlock

Next == Main \/ Worker \/ Logger \/ Tick \/ SigInt

Spec == Init /\ [][Next]_vars

\* The plan is scenario A.
InitA ==
    /\ InitCommon
    /\ phases = ScenarioA
    /\ unknown = FALSE
    /\ memory = 3 * GiB

SpecA == InitA /\ [][Next]_vars

\* Any plan of at most MaxPhases phases of TimedSet.
InitT ==
    /\ InitCommon
    /\ \E n \in 0..MaxPhases : phases = [i \in 1..n |-> TimedPhase]
    /\ unknown = FALSE
    /\ memory = MaxTotal

SpecT == InitT /\ [][Next]_vars

\* The timed plans and scenario A.
SpecD == (InitT \/ InitA) /\ [][Next]_vars

\* The threads are scheduled: a thread that can take a step takes one.
Scheduled ==
    /\ WF_vars(Main)
    /\ WF_vars(Logger)
    /\ \A w \in 1..MaxThreads : WF_vars(WorkerCheck(w) \/ WorkerPeriod(w))

\* The timed plans with the threads scheduled; time need not pass.
SpecSched == SpecT /\ Scheduled

\* The timed plans with the threads scheduled and time passing.
SpecTime == SpecT /\ Scheduled /\ WF_vars(Tick)

\* The first worker of a CPU phase of any utilisation has just been spawned;
\* from there the worker alone runs, and the signal may arrive.
InitW ==
    /\ \E u \in UtilSet :
         /\ phases = << CpuPhase(1, u, MaxDur) >>
         /\ p = CpuPhase(1, u, MaxDur)
         /\ duty = [NoDuty EXCEPT !.util = u, !.at = "check"]
    /\ unknown = FALSE
    /\ memory = MaxTotal
    /\ g_stop = FALSE
    /\ bufs = <<>>
    /\ total = 0
    /\ mtx = "free"
    /\ pc = "cpu_spawn"
    /\ it = 1
    /\ idx = 1
    /\ curv = 0
    /\ remain = 0
    /\ ret = "none"
    /\ remaining = 0
    /\ timer = 0
    /\ running = TRUE
    /\ ts = << "check" >>
    /\ joined = 0
    /\ logging = TRUE
    /\ lpc = "check"
    /\ logNext = LogInterval
    /\ alloc = 0
    /\ cerr = [k \in LineKinds |-> IF k \in {"HDR", "CPU"} THEN 1 ELSE 0]
    /\ exit_code = -1
    /\ summary = -1
    /\ call = NoCall
    /\ expected = 0
    /\ rawsum = 0
    /\ base = 0
    /\ absseen = NoAbs
    /\ readat = 0
    /\ started = << 1 >>
    /\ ended = 0
    /\ due = 0
    /\ now = 0
    /\ atstop = NotStopped

\* The timed plans with the threads scheduled and g_mem.mtx handing the lock
\* to a thread blocked on it: the logger gives the mutex back after one read
\* and sleeps before it asks again, so a main thread that is blocked in
\* lock() over and over is let in.
SpecLock ==
    /\ SpecT
    /\ SF_vars(Main)
    /\ WF_vars(Logger)
    /\ \A w \in 1..MaxThreads : WF_vars(WorkerCheck(w) \/ WorkerPeriod(w))

NextW == Duty \/ SigInt

SpecW == InitW /\ [][NextW]_vars

\* ================================================================ claims
\* No alloc_add / free_bytes call is in progress.
Quiet == call.kind = "none"

\* Every phase of the plan has run to the end of its body and main returned 0.
Completed == exit_code = 0 /\ ended = Len(phases)

\* The total after the call in progress, taken as a whole.
CallResult == IF call.kind = "alloc" THEN call.pre + call.n ELSE Max(0, call.pre - call.n)

\* The totals a reader may see while phase ph runs on a pool that held b
\* when the phase began: before it, after its abs, after its delta.
PhaseTotals(b, ph) ==
    LET a == IF ph.type = "MEM" /\ ph.mem_abs >= 0 THEN ph.mem_abs ELSE b
    IN  {b, a, MemEffect(b, ph)}

\* C1 (as stated): between calls the total is the sum of the signed deltas of
\* the alloc_add / free_bytes calls made so far, clamped at zero, and it is
\* never negative.
C1_SumClampedOnce == total >= 0 /\ (Quiet => total = Max(0, rawsum))

\* C1 (amended): between calls the total is the running sum of the signed
\* deltas in which every call's result is clamped at zero before the next
\* call is added, and the total is never negative.
C1_SumClampedEachCall == total >= 0 /\ (Quiet => total = expected)

\* C1 witness: a shrink asked for more than the pool held and a later grow
\* has finished.
C1_Witness == Quiet /\ rawsum < expected /\ total > 0 /\ pc = "add_print"

\* C2: when the abs branch has made its call (or none) without bad_alloc, the
\* total is the target, whatever the logger is doing.
C2_SetAbsoluteExact == pc = "abs_print" => total = p.mem_abs

\* C2 witness: set_absolute shrank a pool that held more than the target
\* while the logger was holding the mutex on a read.
C2_Witness ==
    /\ pc = "abs_print"
    /\ absseen.total > p.mem_abs
    /\ p.mem_abs > 0
    /\ lpc = "unlock"

\* C3: a free_bytes call for at least the total never ends in bad_alloc, and
\* when its loop is over the buffer list is empty and the total is 0.
C3_ShrinkAll ==
    (call.kind = "free" /\ call.n >= call.pre) =>
        /\ pc # "terminate"
        /\ (pc = "free_loop" /\ ~(remain > 0 /\ bufs # <<>>)) => (bufs = <<>> /\ total = 0)

\* C3 witness: free_bytes for more than the total of a pool of several
\* buffers has emptied it.
C3_Witness ==
    /\ call.kind = "free"
    /\ call.n > call.pre
    /\ call.pre > Chunk
    /\ pc = "free_loop"
    /\ bufs = <<>>

\* C4: when set_absolute(X) was the last operation on the pool, the next
\* set_absolute(X) leaves the buffer list and the total as it found them.
C4_SetAbsoluteTwice ==
    (pc = "abs_print" /\ absseen.prev = p.mem_abs) =>
        (bufs = absseen.bufs /\ total = absseen.total)

\* C4 witness: the second of two set_absolute(X) in a row, X > 0, is done.
C4_Witness ==
    /\ pc = "abs_print"
    /\ absseen.prev = p.mem_abs
    /\ p.mem_abs > Chunk
    /\ Len(started) = 2

\* C5: whenever main does not hold the mutex for alloc_add / free_bytes, the
\* total is the sum of the sizes of the buffers.
C5_TotalIsSum == (mtx # "main" \/ Quiet) => total = SumSeq(bufs)

\* C5 witness: free_bytes has truncated the only buffer, a whole chunk, and
\* the logger holds the mutex.
C5_Witness ==
    /\ mtx = "logger"
    /\ Len(started) = 1
    /\ p.mem_abs = Chunk
    /\ p.mem_delta = -1
    /\ bufs = <<Chunk - 1>>
    /\ pc = "sub_print"

\* C6: the alloc the logger has read is the total before or after a whole
\* alloc_add / free_bytes call, never one in between.
C6_SampleAtCallBoundary ==
    lpc = "unlock" => alloc \in (IF Quiet THEN {total} ELSE {call.pre, CallResult})

\* C6 witness: the logger has read a non-zero total while main waits for the
\* mutex to start a call of several chunks.
C6_Witness ==
    /\ lpc = "unlock"
    /\ alloc > 0
    /\ pc = "alloc_add"
    /\ remain > Chunk

\* C7: the phases begin in plan order, none skipped or repeated; a phase
\* begins only when all before it have ended; and at the end of a body its
\* call is over, the mutex is not main's, every worker has finished and is
\* joined, and no sleep slice is pending; a run that returns 0 without a stop
\* signal has run every phase of the plan.
C7_InOrderOneAtATime ==
    /\ started = [i \in 1..Len(started) |-> i]
    /\ (pc = "exited" /\ exit_code = 0 /\ ~g_stop) => ended = Len(phases)
    /\ ended <= Len(started)
    /\ Len(started) <= ended + 1
    /\ (pc \in {"loop", "shutdown", "join_logger", "summary", "exited"}) => ended = Len(started)
    /\ (pc \in {"phase_end", "loop"}) =>
           /\ Quiet
           /\ mtx # "main"
           /\ \A w \in 1..Len(ts) : ts[w] = "done"
           /\ joined = Len(ts)
           /\ timer = 0

\* C7 witness: the second phase sleeps after a CPU phase that has ended.
C7_Witness ==
    /\ started = <<1, 2>>
    /\ ended = 1
    /\ cerr["CPU"] = 1
    /\ pc = "sleeping"

\* C8: an alloc the logger read once two or more phases had begun is a total
\* of the running phase on top of everything the phases before it did:
\* base (the plan's total after the ended phases), or base with the running
\* phase's abs, or with its abs and delta.
C8_SampleIncludesEndedPhases ==
    (lpc = "unlock" /\ readat >= 2 /\ pc # "terminate") => alloc \in PhaseTotals(base, p)

\* C8 witness: the logger read during the second phase, a CPU phase, after a
\* MEM phase that set the pool and then shrank it.
C8_Witness ==
    /\ lpc = "unlock"
    /\ readat = 2
    /\ p.type = "CPU"
    /\ alloc = base
    /\ base > 0
    /\ cerr["MEM"] = 2
    /\ rawsum < MaxSize

\* C9: scenario A, run through all its phases, ends with 1.5 GiB and its
\* "Done." line reports 1.5 GiB.
C9_ScenarioATotal == Completed => (total = 6 * Chunk /\ summary = 6 * Chunk)

\* C9 witness: scenario A has run all five phases and exited.
C9_Witness == phases = ScenarioA /\ Completed /\ ~g_stop /\ summary = 6 * Chunk

\* C10 (as stated): scenario A, run through all its phases, writes exactly 2
\* lines that mention MEM and exactly 1 that mentions CPU.
C10_TwoMemLines == Completed => (cerr["MEM"] = 2 /\ cerr["CPU"] = 1)

\* C10 (amended): scenario A, run through all its phases, writes exactly 3
\* lines that mention MEM, one for each MEM phase, and exactly 1 that
\* mentions CPU.
C10_ThreeMemLines == Completed => (cerr["MEM"] = 3 /\ cerr["CPU"] = 1)

\* C10 witness: scenario A has exited with all its progress lines written.
C10_Witness == phases = ScenarioA /\ Completed /\ cerr["HDR"] = 5 /\ cerr["SLEEP"] = 1

\* The phase loop has been left: main is in the shutdown code or has returned.
Stopped == pc \in {"shutdown", "join_logger", "summary", "exited"} /\ atstop.total >= 0

\* Main is inside run_cpu.
InCpu == pc \in {"cpu_spawn", "cpu_wait", "cpu_join"}

\* The workers of run_cpu that have not left their loop.
Live == Cardinality({w \in 1..Len(ts) : ts[w] # "done"})

\* C11: run_cpu starts exactly max(1, threads) workers and returns only when
\* all of them have left their loop: outside run_cpu no worker is live, and
\* there are never more workers than the CPU phase's thread count.
C11_WorkersSpawnedAndRetired ==
    /\ Len(ts) <= Max(1, p.cpu_threads)
    /\ ~InCpu => Live = 0
    /\ pc \in {"cpu_wait", "cpu_join"} => Len(ts) = Max(1, p.cpu_threads)
    /\ (pc = "phase_end" /\ p.type = "CPU") =>
           (Len(ts) = Max(1, p.cpu_threads) /\ joined = Len(ts))

\* C11 witness: an uncancelled CPU phase of MaxThreads threads has returned.
C11_Witness ==
    /\ pc = "phase_end"
    /\ p.type = "CPU"
    /\ p.cpu_threads = MaxThreads
    /\ p.duration_s > 0
    /\ Len(ts) = MaxThreads
    /\ ~g_stop

\* C12: while no signal has been set, every burn and sleep that has returned
\* lasted its duration: outside the phase bodies the clock has reached the
\* sum of the durations begun; a completed run of scenario A lasted 15 s.
C12_DwellsLastTheirDuration ==
    /\ (~g_stop /\ pc \in {"phase_end", "loop", "shutdown", "join_logger", "summary", "exited"})
           => now = due
    /\ (~g_stop /\ Completed /\ phases = ScenarioA) => now >= 15 * Second

\* C12 witness: a sleep of more than one slice has returned after a CPU phase
\* of the longest duration, with no signal set.
C12_Witness ==
    /\ ~g_stop
    /\ pc = "phase_end"
    /\ p.type = "SLEEP"
    /\ p.duration_s > Slice
    /\ cerr["CPU"] = 1
    /\ due = MaxDur + p.duration_s

\* Main is inside run_sleep, for a SLEEP phase or a MEM phase's hold.
InSleep == pc \in {"run_sleep", "sleep_loop", "sleeping"}

\* C13: a slice of run_sleep is never longer than 1 s; once the signal is
\* set run_sleep begins no further slice and no further phase begins; and a
\* signal set while main is inside run_sleep leads to the end of the phase
\* loop.
C13_SleepCancelled ==
    /\ [](pc = "sleeping" => timer <= Slice)
    /\ [][(g_stop /\ pc = "sleep_loop") => pc' \in {"sleep_loop", "phase_end"}]_vars
    /\ [][(g_stop /\ (InSleep \/ pc \in {"phase_end", "loop"})) => started' = started]_vars
    /\ (g_stop /\ InSleep) ~> Stopped

\* C13 witness: the signal came in the first slice of a sleep of more than a
\* slice, in the first of two phases; the slice is over and the rest of the
\* duration is still owed.
C13_Witness ==
    /\ g_stop
    /\ pc = "sleep_loop"
    /\ remaining > 0
    /\ p.type = "SLEEP"
    /\ Len(phases) = 2
    /\ Len(started) = 1

\* C14: once the signal is set no worker begins another duty period; run_cpu
\* returns only with every worker finished; and a signal set while main is
\* inside run_cpu leads to the end of the phase loop whether or not time
\* passes.
C14_CpuCancelled ==
    /\ [][\A w \in 1..Len(ts) :
             (g_stop /\ ts[w] = "check" /\ w <= Len(ts')) => ts'[w] # "period"]_vars
    /\ [][(pc = "cpu_join" /\ pc' = "phase_end") => \A w \in 1..Len(ts) : ts[w] = "done"]_vars
    /\ (g_stop /\ InCpu) ~> Stopped

\* C14 witness: the signal was set during the wait of a CPU phase of several
\* threads whose duration has not passed, and run_cpu has joined them all.
C14_Witness ==
    /\ g_stop
    /\ pc = "phase_end"
    /\ p.type = "CPU"
    /\ Len(ts) = MaxThreads
    /\ now < due

\* C15: once the loop's test has seen the signal the phase loop is left for
\* good: no phase begins, no progress line is written, the pool is not
\* changed, no worker is started and nothing is slept; a run whose signal was
\* seen before the first phase runs no phase and reports 0.
C15_StopIsFinal ==
    /\ [][(g_stop /\ pc = "loop") => (pc' \in {"loop", "shutdown"} /\ started' = started)]_vars
    /\ [][Stopped => /\ Stopped'
                     /\ started' = started
                     /\ cerr' = cerr
                     /\ bufs' = bufs /\ total' = total
                     /\ ts' = ts
                     /\ timer' = timer]_vars
    /\ []((pc = "exited" /\ exit_code = 0 /\ started = <<>>) => (summary = 0 /\ total = 0))

\* C15 witness: the signal was set before the first test of the loop and the
\* run has ended without a phase.
C15_Witness ==
    /\ g_stop
    /\ pc = "exited"
    /\ exit_code = 0
    /\ Len(phases) > 0
    /\ started = <<>>

\* C16: with an empty plan or a spec of unknown type, main returns 1 with no
\* memory allocated, no phase begun and no logger thread created; it never
\* returns 0.
C16_UsageError ==
    (unknown \/ Len(phases) = 0) =>
        /\ pc \in {"start", "exited"}
        /\ exit_code # 0
        /\ pc = "exited" => exit_code = 1
        /\ bufs = <<>> /\ total = 0
        /\ started = <<>>
        /\ lpc = "none" /\ ~logging
        /\ summary = -1

\* C16 witness: main has returned from an empty plan, with the usage text.
C16_Witness == pc = "exited" /\ ~unknown /\ Len(phases) = 0 /\ cerr["HELP"] = 1

\* The plan was accepted: main got past the argument loop and the empty test.
Accepted == ~unknown /\ Len(phases) > 0 /\ pc # "start"

\* C17 (as stated): a run that ends after an allocation failure has gone
\* through the shutdown code like any other: when the process has ended, the
\* logger was stopped and joined and the summary line was written.
C17_FatalErrorShutsDown ==
    (Accepted /\ ~Alive) => (~logging /\ lpc = "done" /\ summary >= 0)

\* C18 (as stated): when the process of a run in which the signal was set has
\* ended, the logger was stopped and joined, the summary line was written
\* and the exit code is 0.
C18_CancelIsSuccess ==
    (Accepted /\ g_stop /\ ~Alive) =>
        (~logging /\ lpc = "done" /\ summary >= 0 /\ exit_code = 0)

\* C19 (as stated): the logger thread exists from the start of the run and
\* has never left its loop while the body of a phase is executing.
C19_LoggerOutlivesPhases ==
    /\ (Accepted /\ Alive) => lpc # "none"
    /\ lpc = "done" => ended = Len(started)

\* C19 (amended): the logger thread exists from the start of the run and has
\* left its loop only if it was told that the run has ended, which happens
\* only once the phase loop has been left, or if the signal has been set.
C19_LoggerStopsOnFlagOrSignal ==
    /\ (Accepted /\ Alive) => lpc # "none"
    /\ lpc = "done" => (~logging \/ g_stop)
    /\ (Accepted /\ ~logging) => Stopped
    /\ (lpc = "done" /\ ~g_stop) => Stopped

\* C19 witness: after a signal the logger has returned while alloc_add is
\* still at work for the running phase.
C19_Witness ==
    /\ lpc = "done"
    /\ g_stop
    /\ logging
    /\ pc = "alloc_loop"
    /\ remain > 0

\* C20: from the moment the phase loop is left the pool stays as it was, and
\* the summary line reports the total of that moment.
C20_NoRollback ==
    /\ Stopped => (bufs = atstop.bufs /\ total = atstop.total)
    /\ (Stopped /\ summary >= 0) => summary = atstop.total
    /\ (pc = "exited" /\ exit_code = 0) => (Stopped /\ summary = atstop.total)

\* C20 witness: a cancelled run has ended with phases left to run, and its
\* summary reports the memory it held.
C20_Witness ==
    /\ g_stop
    /\ pc = "exited"
    /\ ended < Len(phases)
    /\ summary > Chunk
    /\ Len(bufs) >= 2

\* b is pb with buffers taken off its newest end, and then at most its last
\* buffer made smaller.
LifoOf(b, pb) ==
    /\ Len(b) <= Len(pb)
    /\ \A i \in 1..(Len(b) - 1) : b[i] = pb[i]
    /\ Len(b) > 0 => (0 < b[Len(b)] /\ b[Len(b)] <= pb[Len(b)])

\* C21: at every step of free_bytes the buffer list is what remains of the
\* list the call found when buffers are taken off its newest end, with at
\* most the last one left made smaller; a buffer is made smaller only as
\* the last step of the call, when the bytes still to free fell strictly
\* inside it.
C21_ShrinkIsLifo ==
    (call.kind = "free" /\ pc = "free_loop") =>
        /\ LifoOf(bufs, call.bufs)
        /\ (bufs # <<>> /\ bufs[Len(bufs)] < call.bufs[Len(bufs)]) =>
               (remain = 0 /\ SumSeq(call.bufs) - SumSeq(bufs) = call.n)

\* C21 witness: free_bytes released the two newest buffers of three and
\* truncated the oldest.
C21_Witness ==
    /\ call.kind = "free"
    /\ pc = "free_loop"
    /\ Len(call.bufs) = 3
    /\ Len(bufs) = 1
    /\ bufs[1] < call.bufs[1]

\* The buffers alloc_add(n) is to append: whole chunks and then the rest.
Chunks(n) ==
    [i \in 1..((n + Chunk - 1) \div Chunk) |-> IF i * Chunk <= n THEN Chunk ELSE n - (i - 1) * Chunk]

\* C22: at every step of alloc_add the buffer list is the list the call
\* found followed by the chunks of the bytes added so far, and when the call
\* is over these are the ceil(n / chunk) chunks of n: all of the chunk size
\* but possibly the last, summing to n.
C22_GrowAppendsChunks ==
    (call.kind = "alloc" /\ pc = "alloc_loop") =>
        /\ bufs = call.bufs \o Chunks(call.n - remain)
        /\ remain = 0 => (/\ SumSeq(bufs) = SumSeq(call.bufs) + call.n
                          /\ Len(bufs) = Len(call.bufs) + (call.n + Chunk - 1) \div Chunk
                          /\ \A i \in (Len(call.bufs) + 1)..Len(bufs) : bufs[i] <= Chunk)

\* C22 witness: alloc_add of a chunk and a half on a pool that held a buffer
\* has added its two buffers.
C22_Witness ==
    /\ call.kind = "alloc"
    /\ pc = "alloc_loop"
    /\ remain = 0
    /\ call.n > Chunk
    /\ call.n < 2 * Chunk
    /\ call.bufs # <<>>
    /\ Len(bufs) = Len(call.bufs) + 2

\* Main is in the MEM branch before the hold.
InMemChange ==
    pc \in {"mem_abs", "abs_unlock", "abs_print", "mem_delta", "alloc_add", "alloc_loop",
            "free_bytes", "free_loop", "add_print", "sub_print"}

\* C23: in a MEM phase the abs is applied before the delta and both before
\* the hold: when the delta is reached the total is the abs target, when the
\* hold is reached and until the phase ends the total is max(0, A + d) (with
\* the total before the phase for an absent A), and no sleep has begun while
\* the size is being changed.
C23_AbsDeltaHold ==
    /\ (pc = "mem_delta" /\ p.mem_abs >= 0) => total = p.mem_abs
    /\ (p.type = "MEM" /\ (pc \in {"mem_hold", "phase_end"} \/ InSleep)) =>
           /\ total = Max(0, (IF p.mem_abs >= 0 THEN p.mem_abs ELSE base) + p.mem_delta)
           /\ Quiet
           /\ mtx # "main"
    /\ InMemChange => (timer = 0 /\ remaining = 0)

\* C23 witness: the second phase, with an abs other than the total it found,
\* a shrinking delta and a duration, is in its hold.
C23_Witness ==
    /\ pc = "sleeping"
    /\ p.type = "MEM"
    /\ p.mem_abs > 0
    /\ p.mem_delta < 0
    /\ Len(started) = 2
    /\ base > p.mem_abs

\* ---------------------------------------------------------------- C24
\* The utilisation after clamping to [0, 100] percent.
Clamped(u) == Max(0, Min(100, u))

\* C24: in every period a worker has carried out, the busy part lasted
\* util x period with util clamped to [0, 1], the idle part lasted the rest
\* of the period, and the two add up to the period; with util 0 the worker
\* did no busy work, and with util 1 it never sleeps.
C24_DutyCycle ==
    /\ (duty.ran /\ duty.at \in {"check", "done"}) =>
          /\ duty.elapsed * 100 = Clamped(duty.util) * Period
          /\ duty.slept = Period - duty.elapsed
          /\ duty.elapsed + duty.slept = Period
          /\ duty.flops <=> Clamped(duty.util) > 0
    /\ duty.at = "sleep" => Clamped(duty.util) < 100

C24_Witness ==
    /\ duty.ran /\ duty.at = "check" /\ duty.util = 40
    /\ duty.elapsed = 4 /\ duty.slept = 6 /\ duty.flops

\* ---------------------------------------------------------------- C25
\* The main thread is at a lock_guard on g_mem.mtx.
AtLock ==
    \/ pc \in {"alloc_add", "free_bytes", "summary"}
    \/ pc = "mem_abs" /\ p.mem_abs >= 0

\* C25: no step of the logger changes the pool, the logger holds g_mem.mtx
\* only between its read of the total and its very next step, which gives it
\* back, and a main thread that has come to a lock on g_mem.mtx gets it.
C25_LoggerReadsOnly ==
    /\ [][(lpc # "none" /\ lpc' # lpc) => poolv' = poolv]_vars
    /\ [][mtx = "logger" => (poolv' = poolv /\ (lpc' # lpc => mtx' = "free"))]_vars
    /\ [](mtx = "logger" => lpc = "unlock")
    /\ (AtLock ~> ~AtLock)

C25_Witness == mtx = "logger" /\ pc = "free_bytes" /\ total > 0 /\ alloc = total

\* ---------------------------------------------------------------- C26
\* C26: the signal does not cut a change of the pool's size short: with the
\* signal set, a call of alloc_add / free_bytes that has come to its end has
\* moved the total by all it was asked for, and when the main thread is back
\* at the head of the loop or has left it, every phase that began has ended
\* and the pool holds the full effect of them all.
C26_MemPhaseAtomic ==
    /\ (g_stop /\ pc \in {"alloc_loop", "free_loop"} /\ remain = 0) => total = CallResult
    /\ (g_stop /\ (pc = "loop" \/ Stopped)) => (ended = Len(started) /\ total = base)

\* The signal came while the first phase of two, a MEM phase of more than a
\* chunk, was running; its hold was cut short and the pool holds it all.
C26_Witness ==
    /\ Stopped /\ g_stop
    /\ Len(phases) = 2 /\ started = << 1 >>
    /\ total > Chunk /\ now < due

\* ---------------------------------------------------------------- C27
\* C27: the summary is printed only when the logger has returned and no
\* worker is left, with g_mem.mtx free for main to take, and it is the total
\* of that moment; once it is printed no thread is left to print or to touch
\* the pool, and nothing more is printed.
C27_SummaryIsLast ==
    /\ [][summary' # summary =>
            /\ lpc = "done" /\ ts = <<>> /\ mtx = "free"
            /\ summary' = total /\ poolv' = poolv]_vars
    /\ [](summary >= 0 => (lpc = "done" /\ ts = <<>> /\ mtx = "free" /\ pc = "exited"))
    /\ [][summary >= 0 => UNCHANGED << cerr, summary, alloc, poolv >>]_vars

C27_Witness ==
    /\ summary > 0 /\ summary = total /\ lpc = "done"
    /\ Len(phases) = 2 /\ ended = 2 /\ ~g_stop

\* ---------------------------------------------------------------- C28
\* C28 (as stated): a run of an accepted plan ends in one way only: the
\* phase loop was left, the workers and the logger have been joined, and the
\* summary line was written; and no thread waits for g_mem.mtx while the
\* holder waits for that thread: a logger holding the mutex is at its
\* release, and main does not hold it while it joins the logger.
C28_EveryRunStops ==
    /\ (Accepted /\ ~Alive) =>
          (Stopped /\ pc = "exited" /\ Live = 0 /\ lpc = "done" /\ summary >= 0)
    /\ (AtLock /\ mtx = "logger") => lpc = "unlock"
    /\ pc \in {"cpu_join", "join_logger"} => mtx # "main"

====
